---- MODULE Spec2Model ----
(***************************************************************************)
(* Daily meal planner: build_diet_model -> solve_model -> extract_solution *)
(* -> build_meal_plan_table -> evaluate_solution, as main.py runs them.     *)
(*                                                                         *)
(* Number representation (fixed point, all integers):                      *)
(*   - a servings value n stands for n * 1e-4 servings, so the default     *)
(*     extraction threshold 1e-4 is 1, 0.5 servings is 5000, 3.0 is 30000; *)
(*   - per-serving nutrient values and serving weights are whole units     *)
(*     (kcal, g);                                                          *)
(*   - totals, targets, slacks and grams are products value * servings,    *)
(*     so they are in 1e-4 nutrient units (target 9999 = 0.9999 kcal);     *)
(*   - the objective is kept multiplied by ObjDen (the 0.001 weight).      *)
(***************************************************************************)
EXTENDS Integers, Sequences, FiniteSets, TLC

\* zero_dev_servings is a history variable, not program state: solve_model
\* records in it whether the program it solved had a feasible point with
\* calories equal to the target, and the least servings of such a point.
\* stdout holds what the run prints about the solver's status: the status
\* line of solve_model and the warning of main.  calls is a history
\* variable: the functions main has called so far, in the order of the calls.
VARIABLES df, cols, targets, pc, model, items, status,
          s, y, s_plus, s_minus, solution_df, plan_df, metrics,
          zero_dev_servings, stdout, calls

vars == <<df, cols, targets, pc, model, items, status,
          s, y, s_plus, s_minus, solution_df, plan_df, metrics,
          zero_dev_servings, stdout, calls>>

\* The value() of a variable the solver gave no value (Python's None); every
\* number a variable can hold is >= 0.
None == -1

\* Largest number of catalog rows of a run.
MaxRows == 3

\* extract_solution's default threshold, 1e-4 servings.
Threshold == 1

\* The default serving weight of an item missing from weight_map, 100 g.
DefaultWeight == 100

\* The objective weighs total servings by 0.001 = 1 / ObjDen.
ObjDen == 1000

----------------------------------------------------------------------------
\* Generic helpers

RECURSIVE SumSeq(_)
SumSeq(q) == IF q = << >> THEN 0 ELSE Head(q) + SumSeq(Tail(q))

Abs(n) == IF n < 0 THEN -n ELSE n

Range(q) == {q[i] : i \in DOMAIN q}

----------------------------------------------------------------------------
\* The Nutrition Catalog (the cleaned data frame)

\* Item names are sequences of characters.
NameA == <<"a">>
NameB == <<"b">>
NameCD == <<"c", " ", "d">>
NameE == <<"e">>
NameF == <<"f">>
NameG == <<"g">>
NameH == <<"h">>

Row(name, meal, cal, protein, fat, carb, weight) ==
    [Food_Item |-> name, Meal_Type |-> meal, Calories |-> cal,
     Protein |-> protein, Fat |-> fat, Carbohydrates |-> carb,
     Sugars |-> 1, Fiber |-> 2, Sodium |-> 3,
     Estimated_Serving_Weight_g |-> weight]

\* The rows a catalog of a run is drawn from, in file order.  clean_data
\* keeps one row per (Food_Item, Meal_Type), so a name may recur under
\* another meal type ("a" is a Breakfast row and a Lunch row).
MasterCatalog ==
    << Row(NameA,  "Breakfast", 2, 1, 1, 2, 50),
       Row(NameB,  "Breakfast", 3, 2, 1, 3, 80),
       Row(NameA,  "Lunch",     4, 0, 2, 1, 120),
       Row(NameCD, "Snack",     1, 1, 0, 1, 30),
       Row(NameE,  "Snack",     2, 1, 1, 0, 40),
       Row(NameF,  "Lunch",     3, 1, 0, 2, 60) >>

RECURSIVE SeqOfSet(_)
SeqOfSet(S) ==
    IF S = {} THEN << >>
    ELSE LET m == CHOOSE x \in S : \A z \in S : x <= z
         IN <<m>> \o SeqOfSet(S \ {m})

\* A catalog with four rows of one meal type.
BreakfastMenu ==
    << Row(NameA, "Breakfast", 2, 1, 1, 2, 50),
       Row(NameB, "Breakfast", 3, 2, 1, 3, 80),
       Row(NameG, "Breakfast", 1, 1, 0, 1, 40),
       Row(NameH, "Breakfast", 1, 0, 1, 1, 60) >>

\* The catalogs: the non-empty selections of at most MaxRows master rows,
\* in file order, and the breakfast menu.
Catalogs ==
    { [k \in 1..Cardinality(S) |-> MasterCatalog[SeqOfSet(S)[k]]] :
        S \in {T \in SUBSET (1..Len(MasterCatalog)) :
                 T # {} /\ Cardinality(T) <= MaxRows} }
    \cup {BreakfastMenu}

\* The optional nutrient columns a catalog file may carry.
OptionalCols == {"Sugars", "Fiber", "Sodium"}
ColChoices == {{}, OptionalCols}

\* NutritionTargets
TargetSpecs ==
    [cal_target : {0, 9999, 30000},
     protein_target : {0, 5000},
     fat_target : {20000},
     carb_target : {40000},
     min_servings_per_item : {0, 5000},
     max_servings_per_item : {5000, 30000},
     max_total_dishes : {2, 15}]

----------------------------------------------------------------------------
\* src/model.py: safe_name and build_diet_model

\* The characters [A-Za-z0-9_] that occur in the catalogs' names.
SafeChars == {"a", "b", "c", "d", "e", "f", "g", "h", "_"}

\* re.sub(r'[^A-Za-z0-9_]+', '_', name): every maximal run of other
\* characters becomes one underscore.
RECURSIVE Sanitize(_, _)
Sanitize(name, inRun) ==
    IF name = << >> THEN << >>
    ELSE IF Head(name) \in SafeChars
         THEN <<Head(name)>> \o Sanitize(Tail(name), FALSE)
         ELSE (IF inRun THEN << >> ELSE <<"_">>) \o Sanitize(Tail(name), TRUE)

Digit(n) == <<"0", "1", "2", "3", "4", "5", "6", "7", "8", "9">>[n + 1]

\* str(idx) of a non-negative integer.
RECURSIVE Decimal(_)
Decimal(n) == IF n < 10 THEN <<Digit(n)>> ELSE Decimal(n \div 10) \o <<Digit(n % 10)>>

\* Mutant: the sanitized name alone, the row index left out.
safe_name_without_idx(name, idx) == Sanitize(name, FALSE)

\* f"{base}_{idx}"
safe_name(name, idx) == Sanitize(name, FALSE) \o <<"_">> \o Decimal(idx)

\* items = df["Food_Item"].tolist()
ItemList(cat) == [i \in DOMAIN cat |-> cat[i].Food_Item]

\* df[df["Meal_Type"] == meal]["Food_Item"].tolist(), as the row positions
\* (the item of position i is cat[i].Food_Item).
RECURSIVE MealPositions(_, _, _)
MealPositions(cat, meal, i) ==
    IF i > Len(cat) THEN << >>
    ELSE (IF cat[i].Meal_Type = meal THEN <<i>> ELSE << >>)
         \o MealPositions(cat, meal, i + 1)

meal_to_items(cat, meal) ==
    LET ps == MealPositions(cat, meal, 1)
    IN [k \in DOMAIN ps |-> cat[ps[k]].Food_Item]

\* The variables of the program.  LpVariable.dicts keys each dictionary by
\* item name, so rows with one name share one servings and one select
\* variable.
SVar(item) == <<"servings", item>>
YVar(item) == <<"select", item>>
PlusVar == <<"calorie_plus">>
MinusVar == <<"calorie_minus">>

\* A constraint  sum(coef * var) sense rhs, with its name.
Con(name, terms, sense, rhs) ==
    [name |-> name, terms |-> terms, sense |-> sense, rhs |-> rhs]

\* pulp.lpSum(y[i] for i in its)
SelectSum(its) == [k \in DOMAIN its |-> <<1, YVar(its[k])>>]

\* pulp.lpSum(v(i, col) * s[df.loc[i, "Food_Item"]] for i in df.index)
NutrientSum(cat, col) == [i \in DOMAIN cat |-> <<cat[i][col], SVar(cat[i].Food_Item)>>]

\* Mutant: s[item] <= max_servings_per_item, the select variable left out.
MaxServingsConUnlinked(item, idx, t) ==
    Con(<<"MaxServings_">> \o safe_name(item, idx),
        <<<<1, SVar(item)>>>>, "<=", t.max_servings_per_item)

\* s[item] <= max_servings_per_item * y[item]
MaxServingsCon(item, idx, t) ==
    Con(<<"MaxServings_">> \o safe_name(item, idx),
        <<<<1, SVar(item)>>, <<-t.max_servings_per_item, YVar(item)>>>>, "<=", 0)

\* s[item] >= min_servings_per_item * y[item]
MinServingsCon(item, idx, t) ==
    Con(<<"MinServings_">> \o safe_name(item, idx),
        <<<<1, SVar(item)>>, <<-t.min_servings_per_item, YVar(item)>>>>, ">=", 0)

\* for idx, item in enumerate(items): the two linking constraints
RECURSIVE LinkingCons(_, _, _)
LinkingCons(its, i, t) ==
    IF i > Len(its) THEN << >>
    ELSE <<MaxServingsCon(its[i], i - 1, t), MinServingsCon(its[i], i - 1, t)>>
         \o LinkingCons(its, i + 1, t)

\* Mutant: the dish cap one too high.
DishCapConOffByOne(its, t) ==
    Con(<<"Max_Total_Dishes">>, SelectSum(its), "<=", t.max_total_dishes + 1)

\* pulp.lpSum(y[i] for i in items) <= max_total_dishes
DishCapCon(its, t) ==
    Con(<<"Max_Total_Dishes">>, SelectSum(its), "<=", t.max_total_dishes)

MainMeals == <<"Breakfast", "Lunch", "Dinner">>

\* Mutant: at least 1 item of the meal instead of at least 2.
VarietyConsMinOne(cat, meal) ==
    LET meal_items == meal_to_items(cat, meal)
    IN IF Len(meal_items) >= 2
       THEN <<Con(<<"MinItems_", meal>>, SelectSum(meal_items), ">=", 1),
              Con(<<"MaxItems_", meal>>, SelectSum(meal_items), "<=", 3)>>
       ELSE << >>

\* Mutant: the constraints emitted as soon as the meal has 1 item.
VarietyConsFromOne(cat, meal) ==
    LET meal_items == meal_to_items(cat, meal)
    IN IF Len(meal_items) >= 1
       THEN <<Con(<<"MinItems_", meal>>, SelectSum(meal_items), ">=", 2),
              Con(<<"MaxItems_", meal>>, SelectSum(meal_items), "<=", 3)>>
       ELSE << >>

\* Breakfast, Lunch, Dinner: 2 to 3 items, when the meal has >= 2 items
VarietyCons(cat, meal) ==
    LET meal_items == meal_to_items(cat, meal)
    IN IF Len(meal_items) >= 2
       THEN <<Con(<<"MinItems_", meal>>, SelectSum(meal_items), ">=", 2),
              Con(<<"MaxItems_", meal>>, SelectSum(meal_items), "<=", 3)>>
       ELSE << >>

\* Snack: exactly 1 item, when there are snack items
SnackCons(cat) ==
    LET snack_items == meal_to_items(cat, "Snack")
    IN IF Len(snack_items) >= 1
       THEN <<Con(<<"ExactItems_Snack">>, SelectSum(snack_items), "==", 1)>>
       ELSE << >>

\* sum(calories * s) == cal_target + s_plus - s_minus
CalorieBalanceCon(cat, t) ==
    Con(<<"Calorie_Balance">>,
        NutrientSum(cat, "Calories") \o <<<<-1, PlusVar>>, <<1, MinusVar>>>>,
        "==", t.cal_target)

ProteinMinCon(cat, t) ==
    Con(<<"Protein_Min">>, NutrientSum(cat, "Protein"), ">=", t.protein_target)

FatMaxCon(cat, t) ==
    Con(<<"Fat_Max">>, NutrientSum(cat, "Fat"), "<=", t.fat_target)

CarbMaxCon(cat, t) ==
    Con(<<"Carb_Max">>, NutrientSum(cat, "Carbohydrates"), "<=", t.carb_target)

\* The constraints in the order build_diet_model adds them.
Constraints(cat, t) ==
    LinkingCons(ItemList(cat), 1, t)
    \o <<DishCapCon(ItemList(cat), t)>>
    \o VarietyCons(cat, MainMeals[1])
    \o VarietyCons(cat, MainMeals[2])
    \o VarietyCons(cat, MainMeals[3])
    \o SnackCons(cat)
    \o <<CalorieBalanceCon(cat, t), ProteinMinCon(cat, t),
         FatMaxCon(cat, t), CarbMaxCon(cat, t)>>

\* Mutant: the two slack variables left out of the objective.
ObjectiveTermsWithoutSlacks(its) == [k \in DOMAIN its |-> <<1, SVar(its[k])>>]

\* Mutant: the servings weighted 1 instead of 0.001.
ObjectiveTermsUnweighted(its) ==
    <<<<1, PlusVar>>, <<1, MinusVar>>>>
    \o [k \in DOMAIN its |-> <<1, SVar(its[k])>>]

\* ObjDen * (s_plus + s_minus + 0.001 * lpSum(s[item] for item in items))
ObjectiveTerms(its) ==
    <<<<ObjDen, PlusVar>>, <<ObjDen, MinusVar>>>>
    \o [k \in DOMAIN its |-> <<1, SVar(its[k])>>]

\* LpProblem += constraint raises PulpError("overlapping constraint names")
\* when the name is already a constraint of the problem.
NamesOverlap(cons) ==
    \E i, j \in DOMAIN cons : i < j /\ cons[i].name = cons[j].name

EmptyModel == [objective |-> << >>, constraints |-> << >>]

build_diet_model ==
    /\ pc = "start"
    /\ items' = ItemList(df)
    /\ LET cons == Constraints(df, targets)
       IN IF NamesOverlap(cons)
          THEN /\ pc' = "failed"
               /\ model' = EmptyModel
          ELSE /\ pc' = "built"
               /\ model' = [objective |-> ObjectiveTerms(ItemList(df)),
                            constraints |-> cons]
    /\ calls' = Append(calls, "build_diet_model")
    /\ UNCHANGED <<df, cols, targets, status, s, y, s_plus, s_minus,
                   solution_df, plan_df, metrics, zero_dev_servings, stdout>>

----------------------------------------------------------------------------
\* src/solver.py: solve_model (the CBC solver on the built program)

\* The values a servings variable takes (lowBound = 0, continuous): the
\* grid holds 0, the threshold, 0.5, 0.9999 and 3.0 servings.  The solver
\* is modelled as exact optimisation over this grid; a run of the model is a
\* run of the program when the program's optimum over the reals lies on the
\* grid, as it does when the serving bounds pin the solved values.
ServGrid == {0, 1, 5000, 9999, 30000}

\* The values a select variable takes (binary).
Binary == {0, 1}

\* How far above their least values the two slack variables are tried.
SlackPad == 1

\* A point assigns a value to every variable of the program.
Point(sv, yv, p, m) == [s |-> sv, y |-> yv, s_plus |-> p, s_minus |-> m]

ValueOf(var, pt) ==
    IF var[1] = "servings" THEN pt.s[var[2]]
    ELSE IF var[1] = "select" THEN pt.y[var[2]]
    ELSE IF var = PlusVar THEN pt.s_plus
    ELSE pt.s_minus

RECURSIVE EvalFrom(_, _, _)
EvalFrom(terms, pt, k) ==
    IF k > Len(terms) THEN 0
    ELSE terms[k][1] * ValueOf(terms[k][2], pt) + EvalFrom(terms, pt, k + 1)

\* The value of a linear expression at a point.
Eval(terms, pt) == EvalFrom(terms, pt, 1)

Holds(con, pt) ==
    LET lhs == Eval(con.terms, pt)
    IN CASE con.sense = "<=" -> lhs <= con.rhs
         [] con.sense = ">=" -> lhs >= con.rhs
         [] con.sense = "==" -> lhs = con.rhs

VarsOf(con) == {con.terms[k][2] : k \in DOMAIN con.terms}

HasSlack(con) == PlusVar \in VarsOf(con) \/ MinusVar \in VarsOf(con)

\* The (servings, select) values of one item that satisfy the constraints
\* over that item's variables alone.
ItemChoices(cons, n) ==
    LET own == {k \in DOMAIN cons : VarsOf(cons[k]) \subseteq {SVar(n), YVar(n)}}
    IN {c \in [servings : ServGrid, select : Binary] :
          \A k \in own : Holds(cons[k], Point((n :> c.servings), (n :> c.select), 0, 0))}

\* The values of the item variables, item by item (the slacks at 0).
RECURSIVE Assignments(_, _)
Assignments(cons, N) ==
    IF N = {} THEN {Point(<< >>, << >>, 0, 0)}
    ELSE LET n == CHOOSE x \in N : TRUE
         IN {Point((n :> c.servings) @@ r.s, (n :> c.select) @@ r.y, 0, 0) :
                c \in ItemChoices(cons, n), r \in Assignments(cons, N \ {n})}

\* The slack values tried with an assignment a whose calorie total is r
\* from the target: (r + e, e) and (e, r + e) for e in 0..SlackPad.
SlackPairs(cons, slack, a) ==
    UNION {LET r == Abs(Eval(cons[k].terms, a) - cons[k].rhs)
           IN {<<r + e, e>> : e \in 0..SlackPad} \cup {<<e, r + e>> : e \in 0..SlackPad} :
             k \in slack}

\* The feasible points of the program: every constraint holds.
FeasiblePoints(m, N) ==
    LET cons == m.constraints
        plain == {k \in DOMAIN cons : ~HasSlack(cons[k])}
        slack == {k \in DOMAIN cons : HasSlack(cons[k])}
        fa == {a \in Assignments(cons, N) : \A k \in plain : Holds(cons[k], a)}
    IN UNION {{pt \in {Point(a.s, a.y, pm[1], pm[2]) : pm \in SlackPairs(cons, slack, a)} :
                 \A k \in slack : Holds(cons[k], pt)} :
              a \in fa}

Objective(m, pt) == Eval(m.objective, pt)

\* The least first component of a set of pairs.
LeastScore(scored) ==
    LET vals == {sp[1] : sp \in scored}
    IN CHOOSE v \in vals : \A w \in vals : v <= w

\* The optimal points: the feasible points fp with the least objective.
OptimalPoints(m, fp) ==
    LET scored == {<<Objective(m, pt), pt>> : pt \in fp}
        best == LeastScore(scored)
    IN IF scored = {} THEN {}
       ELSE {sp[2] : sp \in {sq \in scored : sq[1] = best}}

\* lpSum(s[item] for item in items) at a servings assignment: the servings
\* the objective counts (a name that is in the item list twice counts twice).
ObjectiveServings(its, sv) == SumSeq([k \in DOMAIN its |-> sv[its[k]]])

\* The least ObjectiveServings of a feasible point whose calories equal the
\* target (both slacks 0), None when there is no such point.
LeastZeroDeviation(its, fp) ==
    LET zs == {ObjectiveServings(its, pt.s) :
                 pt \in {q \in fp : q.s_plus = 0 /\ q.s_minus = 0}}
    IN IF zs = {} THEN None ELSE CHOOSE v \in zs : \A w \in zs : v <= w

\* What the servings variables may hold after a solve that is not Optimal.
Leftover == {None, 1, 5000}

\* A run that prints the status line only.
StatusReportSilent(st) == <<"Solver status", st>>

\* The status line solve_model prints, and the warning main prints after it
\* for a status other than Optimal.
StatusReport(st) ==
    <<"Solver status", st>>
        \o (IF st # "Optimal" THEN <<"Warning: not Optimal">> ELSE << >>)

\* model.solve(PULP_CBC_CMD(msg=False)); status = LpStatus[model.status].
\* The objective is bounded below by 0, so the program is Optimal or
\* Infeasible.  After an Infeasible solve the servings variables hold
\* whatever the solver left in them; no stage reads the other variables.
solve_model ==
    /\ pc = "built"
    /\ pc' = "solved"
    /\ \E fp \in {FeasiblePoints(model, Range(items))} :
       \E opt \in {OptimalPoints(model, fp)} :
          /\ zero_dev_servings' = LeastZeroDeviation(items, fp)
          /\ IF opt # {}
             THEN /\ status' = "Optimal"
                  /\ \E pt \in opt :
                       /\ s' = pt.s
                       /\ y' = pt.y
                       /\ s_plus' = pt.s_plus
                       /\ s_minus' = pt.s_minus
             ELSE /\ status' = "Infeasible"
                  /\ s' \in [Range(items) -> Leftover]
                  /\ y' = [n \in Range(items) |-> None]
                  /\ s_plus' = None
                  /\ s_minus' = None
    /\ stdout' = StatusReport(status')
    /\ calls' = Append(calls, "solve_model")
    /\ UNCHANGED <<df, cols, targets, model, items, solution_df, plan_df, metrics>>

----------------------------------------------------------------------------
\* src/solver.py: extract_solution

\* df.set_index("Food_Item")["Estimated_Serving_Weight_g"].to_dict(): one
\* entry per name; of several rows with one name the last one's weight stays.
weight_map(cat) ==
    [n \in Range(ItemList(cat)) |->
        LET last == CHOOSE i \in DOMAIN cat :
                      /\ cat[i].Food_Item = n
                      /\ \A j \in DOMAIN cat : cat[j].Food_Item = n => j <= i
        IN cat[last].Estimated_Serving_Weight_g]

\* Mutant: a lookup that misses gives weight 0.
WeightOfZero(wm, item) == IF item \in DOMAIN wm THEN wm[item] ELSE 0

\* weight_map.get(item, 100.0)
WeightOf(wm, item) == IF item \in DOMAIN wm THEN wm[item] ELSE DefaultWeight

\* Mutant: servings >= threshold.
EmitsAtThreshold(servings, thr) == servings # None /\ servings >= thr

\* servings is not None and servings > threshold
Emits(servings, thr) == servings # None /\ servings > thr

SolutionRow(item, servings, w) ==
    [Food_Item |-> item, Servings |-> servings, Quantity_grams |-> servings * w]

\* for item in items: ... rows.append([item, servings, grams])
RECURSIVE ExtractRows(_, _, _, _, _)
ExtractRows(its, i, sv, wm, thr) ==
    IF i > Len(its) THEN << >>
    ELSE (IF Emits(sv[its[i]], thr)
          THEN <<SolutionRow(its[i], sv[its[i]], WeightOf(wm, its[i]))>>
          ELSE << >>)
         \o ExtractRows(its, i + 1, sv, wm, thr)

extract_solution ==
    /\ pc = "solved"
    /\ pc' = "extracted"
    /\ solution_df' = ExtractRows(items, 1, s, weight_map(df), Threshold)
    /\ calls' = Append(calls, "extract_solution")
    /\ UNCHANGED <<df, cols, targets, model, items, status, s, y, s_plus, s_minus,
                   plan_df, metrics, zero_dev_servings, stdout>>

----------------------------------------------------------------------------
\* src/analysis.py

\* The catalog rows a solution row joins with, in catalog order.
RECURSIVE Matches(_, _, _)
Matches(cat, item, i) ==
    IF i > Len(cat) THEN << >>
    ELSE (IF cat[i].Food_Item = item THEN <<cat[i]>> ELSE << >>)
         \o Matches(cat, item, i + 1)

MergedRow(sol, row) ==
    [Food_Item |-> sol.Food_Item, Servings |-> sol.Servings,
     Quantity_grams |-> sol.Quantity_grams, Meal_Type |-> row.Meal_Type,
     Calories |-> row.Calories, Protein |-> row.Protein, Fat |-> row.Fat,
     Carbohydrates |-> row.Carbohydrates, Sugars |-> row.Sugars,
     Fiber |-> row.Fiber, Sodium |-> row.Sodium]

\* solution_df.merge(df, on="Food_Item", how="left"): the rows of
\* solution_df in order, each once per catalog row of its name.  (Every
\* solution row has a catalog row: its item comes from the catalog.)
RECURSIVE Merge(_, _)
Merge(sol, cat) ==
    IF sol = << >> THEN << >>
    ELSE LET ms == Matches(cat, Head(sol).Food_Item, 1)
         IN [k \in DOMAIN ms |-> MergedRow(Head(sol), ms[k])] \o Merge(Tail(sol), cat)

RequiredCols == {"Calories", "Protein", "Fat", "Carbohydrates"}

\* total(col): 0.0 when the column is not in the merged frame, else
\* (merged[col] * merged["Servings"]).sum()
Total(merged, present, col) ==
    IF col \notin present THEN 0
    ELSE SumSeq([k \in DOMAIN merged |-> merged[k][col] * merged[k].Servings])

compute_totals(cat, present, sol) ==
    LET merged == Merge(sol, cat)
    IN [Total_Calories |-> Total(merged, present, "Calories"),
        Total_Protein |-> Total(merged, present, "Protein"),
        Total_Fat |-> Total(merged, present, "Fat"),
        Total_Carbohydrates |-> Total(merged, present, "Carbohydrates"),
        Total_Sugars |-> Total(merged, present, "Sugars"),
        Total_Fiber |-> Total(merged, present, "Fiber"),
        Total_Sodium |-> Total(merged, present, "Sodium")]

\* Mutant: the calorie deviation as target - total.
MetricsFlipped(totals, cal_target, protein_target, fat_target, carb_target) ==
    [totals |-> totals,
     Calorie_Deviation |-> cal_target - totals.Total_Calories,
     Protein_Slack |-> totals.Total_Protein - protein_target,
     Fat_Slack |-> fat_target - totals.Total_Fat,
     Carb_Slack |-> carb_target - totals.Total_Carbohydrates]

Metrics(totals, cal_target, protein_target, fat_target, carb_target) ==
    [totals |-> totals,
     Calorie_Deviation |-> totals.Total_Calories - cal_target,
     Protein_Slack |-> totals.Total_Protein - protein_target,
     Fat_Slack |-> fat_target - totals.Total_Fat,
     Carb_Slack |-> carb_target - totals.Total_Carbohydrates]

evaluate_solution ==
    /\ pc = "planned"
    /\ pc' = "evaluated"
    /\ metrics' = Metrics(compute_totals(df, RequiredCols \cup cols, solution_df),
                          targets.cal_target, targets.protein_target,
                          targets.fat_target, targets.carb_target)
    /\ calls' = Append(calls, "evaluate_solution")
    /\ UNCHANGED <<df, cols, targets, model, items, status, s, y, s_plus, s_minus,
                   solution_df, plan_df, zero_dev_servings, stdout>>

PlanRow(m) ==
    [Meal_Type |-> m.Meal_Type, Food_Item |-> m.Food_Item,
     Servings |-> m.Servings, Quantity_grams |-> m.Quantity_grams,
     Calories_Contribution |-> m.Calories * m.Servings,
     Protein_Contribution |-> m.Protein * m.Servings,
     Carb_Contribution |-> m.Carbohydrates * m.Servings]

\* The order of the meal type strings.
MealRank(meal) ==
    CASE meal = "Breakfast" -> 1
      [] meal = "Dinner" -> 2
      [] meal = "Lunch" -> 3
      [] meal = "Snack" -> 4

\* by=["Meal_Type", "Calories Contribution (kcal)"], ascending=[True, False]
PlanBefore(a, b) ==
    \/ MealRank(a.Meal_Type) < MealRank(b.Meal_Type)
    \/ /\ a.Meal_Type = b.Meal_Type
       /\ a.Calories_Contribution > b.Calories_Contribution

\* sort_values on several keys is a stable sort: a row goes after every
\* row it is not strictly before.
RECURSIVE InsertSorted(_, _)
InsertSorted(sorted, r) ==
    IF sorted = << >> THEN <<r>>
    ELSE IF PlanBefore(r, Head(sorted)) THEN <<r>> \o sorted
    ELSE <<Head(sorted)>> \o InsertSorted(Tail(sorted), r)

RECURSIVE SortPlan(_, _)
SortPlan(rows, acc) ==
    IF rows = << >> THEN acc
    ELSE SortPlan(Tail(rows), InsertSorted(acc, Head(rows)))

PlanTable(cat, sol) ==
    LET merged == Merge(sol, cat)
    IN SortPlan([k \in DOMAIN merged |-> PlanRow(merged[k])], << >>)

build_meal_plan_table ==
    /\ pc = "extracted"
    /\ pc' = "planned"
    /\ plan_df' = PlanTable(df, solution_df)
    /\ calls' = Append(calls, "build_meal_plan_table")
    /\ UNCHANGED <<df, cols, targets, model, items, status, s, y, s_plus, s_minus,
                   solution_df, metrics, zero_dev_servings, stdout>>

----------------------------------------------------------------------------
\* src/main.py: one planning run

Init ==
    /\ df \in Catalogs
    /\ cols \in ColChoices
    /\ targets \in TargetSpecs
    /\ pc = "start"
    /\ model = EmptyModel
    /\ items = << >>
    /\ status = "None"
    /\ s = << >>
    /\ y = << >>
    /\ s_plus = None
    /\ s_minus = None
    /\ solution_df = << >>
    /\ plan_df = << >>
    /\ metrics = << >>
    /\ zero_dev_servings = None
    /\ stdout = << >>
    /\ calls = << >>

Next ==
    \/ build_diet_model
    \/ solve_model
    \/ extract_solution
    \/ build_meal_plan_table
    \/ evaluate_solution

Spec == Init /\ [][Next]_vars

----------------------------------------------------------------------------
\* src/model.py: build_diet_model on catalogs whose names clash: one name
\* under two meal types, and distinct names that sanitize to one string
\* ("c d", "c_d" and "c--d" all give "c_d").

NameCUD == <<"c", "_", "d">>
NameCMD == <<"c", "-", "-", "d">>

ClashCatalog ==
    << Row(NameCD,  "Snack",     1, 1, 0, 1, 30),
       Row(NameCD,  "Lunch",     2, 1, 1, 1, 30),
       Row(NameCUD, "Snack",     1, 1, 0, 1, 30),
       Row(NameCMD, "Lunch",     3, 1, 0, 2, 60),
       Row(NameA,   "Breakfast", 2, 1, 1, 2, 50),
       Row(NameA,   "Lunch",     4, 0, 2, 1, 120) >>

ClashCatalogs ==
    { [k \in 1..Cardinality(S) |-> ClashCatalog[SeqOfSet(S)[k]]] :
        S \in {T \in SUBSET (1..Len(ClashCatalog)) :
                 T # {} /\ Cardinality(T) <= MaxRows} }

BuildInit ==
    /\ df \in ClashCatalogs
    /\ cols = {}
    /\ targets \in TargetSpecs
    /\ pc = "start"
    /\ model = EmptyModel
    /\ items = << >>
    /\ status = "None"
    /\ s = << >>
    /\ y = << >>
    /\ s_plus = None
    /\ s_minus = None
    /\ solution_df = << >>
    /\ plan_df = << >>
    /\ metrics = << >>
    /\ zero_dev_servings = None
    /\ stdout = << >>
    /\ calls = << >>

BuildNext == build_diet_model

BuildSpec == BuildInit /\ [][BuildNext]_vars

\* The planning run on the catalogs whose names clash (BuildInit): a snack
\* whose name is also a lunch row, names that sanitize to one string.
ClashSpec == BuildInit /\ [][Next]_vars

----------------------------------------------------------------------------
\* src/solver.py: extract_solution called on its own, with an item list and
\* servings variables of the caller's choice: an item need not be a name of
\* the catalog (its weight lookup then misses), and a variable may have no
\* value.  extract_solution reads neither the targets nor the status.

CallNames == {NameA, NameCD, NameG}

CallItems == {<<n>> : n \in CallNames} \cup {<<n, m>> : n, m \in CallNames}

CallValues == {None, Threshold, 5000, 30000}

ExtractInit ==
    /\ df \in Catalogs
    /\ cols = {}
    /\ targets = CHOOSE t \in TargetSpecs : TRUE
    /\ pc = "solved"
    /\ model = EmptyModel
    /\ items \in CallItems
    /\ status = "None"
    /\ s \in [Range(items) -> CallValues]
    /\ y = << >>
    /\ s_plus = None
    /\ s_minus = None
    /\ solution_df = << >>
    /\ plan_df = << >>
    /\ metrics = << >>
    /\ zero_dev_servings = None
    /\ stdout = << >>
    /\ calls = << >>

ExtractNext == extract_solution

ExtractSpec == ExtractInit /\ [][ExtractNext]_vars

----------------------------------------------------------------------------
\* Properties

Solved == pc \in {"solved", "extracted", "planned", "evaluated"}

Optimal == Solved /\ status = "Optimal"

\* The catalog rows of a meal type, and those whose item is selected.
MealRows(meal) == {i \in DOMAIN df : df[i].Meal_Type = meal}

SelectedRows(meal) == {i \in MealRows(meal) : y[df[i].Food_Item] = 1}

\* C1: in every Optimal solution, for every item, selected = 0 implies
\* servings = 0, and servings > 0 implies
\* min_servings_per_item <= servings <= max_servings_per_item.
C1_Linking ==
    Optimal =>
        \A i \in DOMAIN df :
            LET n == df[i].Food_Item
            IN /\ y[n] = 0 => s[n] = 0
               /\ s[n] > 0 => /\ targets.min_servings_per_item <= s[n]
                              /\ s[n] <= targets.max_servings_per_item

C1_Witness ==
    /\ Optimal
    /\ \E i \in DOMAIN df : y[df[i].Food_Item] = 0 /\ s[df[i].Food_Item] = 0
    /\ \E j \in DOMAIN df : y[df[j].Food_Item] = 1 /\ s[df[j].Food_Item] > 0

\* C2: in every Optimal solution the number of catalog items (rows) whose
\* selected indicator is 1 is at most max_total_dishes.  (Every catalog has
\* unique names within a meal type; a name may be under two meal types.)
C2_DishCap ==
    Optimal =>
        Cardinality({i \in DOMAIN df : y[df[i].Food_Item] = 1})
            <= targets.max_total_dishes

C2_Witness ==
    /\ Optimal
    /\ Len(df) > targets.max_total_dishes
    /\ Cardinality({i \in DOMAIN df : y[df[i].Food_Item] = 1})
           = targets.max_total_dishes

\* C3: in every Optimal solution each of Breakfast, Lunch and Dinner that
\* has at least 2 catalog items has 2 or 3 selected items, and if there is
\* at least 1 Snack item exactly 1 Snack item is selected.
C3_Variety ==
    Optimal =>
        /\ \A k \in DOMAIN MainMeals :
              Cardinality(MealRows(MainMeals[k])) >= 2
                  => Cardinality(SelectedRows(MainMeals[k])) \in {2, 3}
        /\ Cardinality(MealRows("Snack")) >= 1
              => Cardinality(SelectedRows("Snack")) = 1

C3_Witness ==
    /\ Optimal
    /\ Cardinality(MealRows("Breakfast")) >= 2
    /\ Cardinality(SelectedRows("Breakfast")) = 2
    /\ Cardinality(MealRows("Snack")) >= 1
    /\ Cardinality(SelectedRows("Snack")) = 1

\* A meal with more than 3 items, 3 of them selected, is reached too.
C3_FullMenuReached ==
    /\ Optimal
    /\ Cardinality(MealRows("Breakfast")) = 4
    /\ Cardinality(SelectedRows("Breakfast")) = 3

ConNames == {model.constraints[k].name : k \in DOMAIN model.constraints}

IsVarietyCon(con) == con.name[1] \in {"MinItems_", "MaxItems_", "ExactItems_Snack"}

\* C4: MinItems_<meal> and MaxItems_<meal> are emitted for a meal of
\* Breakfast, Lunch, Dinner iff the meal has at least 2 catalog items, and
\* ExactItems_Snack iff there is at least 1 Snack item; a meal with no rows
\* gets no such constraint; construction does not fail; and each emitted
\* variety or exactness constraint is satisfied by some binary values of the
\* select variables.
C4_VarietyEmission ==
    /\ pc # "failed"
    /\ pc # "start" =>
        /\ \A k \in DOMAIN MainMeals :
              /\ <<"MinItems_", MainMeals[k]>> \in ConNames
                    <=> Cardinality(MealRows(MainMeals[k])) >= 2
              /\ <<"MaxItems_", MainMeals[k]>> \in ConNames
                    <=> Cardinality(MealRows(MainMeals[k])) >= 2
        /\ <<"ExactItems_Snack">> \in ConNames
              <=> Cardinality(MealRows("Snack")) >= 1
        /\ <<"MinItems_", "Snack">> \notin ConNames
        /\ <<"MaxItems_", "Snack">> \notin ConNames
        /\ \A k \in DOMAIN model.constraints :
              IsVarietyCon(model.constraints[k])
                  => \E yv \in [Range(items) -> Binary] :
                        Holds(model.constraints[k], Point(<< >>, yv, 0, 0))

C4_Witness ==
    /\ pc = "built"
    /\ Cardinality(MealRows("Breakfast")) >= 2
    /\ Cardinality(MealRows("Lunch")) = 1
    /\ MealRows("Dinner") = {}
    /\ MealRows("Snack") = {}
    /\ <<"MinItems_", "Breakfast">> \in ConNames
    /\ <<"MinItems_", "Lunch">> \notin ConNames

\* The calories of the solved program: sum over the catalog rows of
\* per-serving calories * the servings variable of the row's item.
ProgramCalories == SumSeq([i \in DOMAIN df |-> df[i].Calories * s[df[i].Food_Item]])

DistinctNames == \A i, j \in DOMAIN df : df[i].Food_Item = df[j].Food_Item => i = j

\* A catalog of snacks with distinct names, solved under a positive minimum
\* serving: exactly one item is selected, its servings lie between the two
\* serving bounds, and Metrics reports the program's own calorie total.
SnackMenuRun ==
    /\ DistinctNames
    /\ \A i \in DOMAIN df : df[i].Meal_Type = "Snack"
    /\ targets.min_servings_per_item > 0

\* C5 as claimed, on snack menus: whenever a feasible point with calories
\* equal to the target exists, every Optimal solution hits the target
\* exactly: the Calorie Deviation of Metrics is 0.
C5_ExactWhenReachable ==
    (/\ pc = "evaluated" /\ status = "Optimal" /\ zero_dev_servings # None
     /\ SnackMenuRun)
        => metrics.Calorie_Deviation = 0

\* C5 as amended: whenever a feasible point P with calories equal to the
\* target exists, every Optimal solution has
\*   |program calories - target| <= 0.001 * (servings of P - servings of
\*   the solution),
\* the servings counted as the objective counts them.
C5_DeviationBounded ==
    (Optimal /\ zero_dev_servings # None)
        => /\ s_plus - s_minus = ProgramCalories - targets.cal_target
           /\ ObjDen * Abs(ProgramCalories - targets.cal_target)
                 <= zero_dev_servings - ObjectiveServings(items, s)

C5_Witness ==
    /\ Optimal
    /\ zero_dev_servings # None
    /\ SnackMenuRun
    /\ ProgramCalories # targets.cal_target
    /\ ObjectiveServings(items, s) < zero_dev_servings

\* C6 as claimed: for every Optimal run the Metrics satisfy
\* Protein Slack >= 0, Fat Slack >= 0 and Carb Slack >= 0.
C6_SlacksNonNegative ==
    (pc = "evaluated" /\ status = "Optimal")
        => /\ metrics.Protein_Slack >= 0
           /\ metrics.Fat_Slack >= 0
           /\ metrics.Carb_Slack >= 0

Extracted == pc \in {"extracted", "planned", "evaluated"}

\* The positions of the item list whose solved servings value is present
\* and strictly greater than the threshold, in ascending order.
EmittedIdx ==
    SeqOfSet({i \in DOMAIN items : s[items[i]] # None /\ s[items[i]] > Threshold})

\* C7: extract_solution emits a row for an item iff its solved servings
\* value is present and strictly greater than the threshold; the rows are
\* in the order of the item list.
C7_ThresholdFilter ==
    Extracted =>
        /\ Len(solution_df) = Len(EmittedIdx)
        /\ \A k \in DOMAIN solution_df :
              /\ solution_df[k].Food_Item = items[EmittedIdx[k]]
              /\ solution_df[k].Servings = s[items[EmittedIdx[k]]]

C7_Witness ==
    /\ Extracted
    /\ \E i \in DOMAIN items : s[items[i]] = Threshold
    /\ \E i \in DOMAIN items : s[items[i]] = None
    /\ \E i \in DOMAIN items : s[items[i]] > Threshold
    /\ Len(solution_df) = 1

\* An Optimal run with an item solved to exactly the threshold is reached.
C7_OptimalAtThresholdReached ==
    /\ Extracted
    /\ status = "Optimal"
    /\ \E i \in DOMAIN items : s[items[i]] = Threshold
    /\ \E i \in DOMAIN items : s[items[i]] > Threshold

\* C8 as claimed: for every emitted row, grams = servings * the serving
\* weight of that row's catalog item.
C8_GramsRoundTrip ==
    Extracted =>
        /\ Len(solution_df) = Len(EmittedIdx)
        /\ \A k \in DOMAIN solution_df :
              solution_df[k].Quantity_grams
                  = solution_df[k].Servings
                      * df[EmittedIdx[k]].Estimated_Serving_Weight_g

\* The sum over the Solution rows of the row's catalog value * servings,
\* each Solution row once; 0 for a column the catalog does not have.
RowTotal(col) ==
    IF col \notin RequiredCols \cup cols THEN 0
    ELSE SumSeq([k \in DOMAIN solution_df |->
                    df[EmittedIdx[k]][col] * solution_df[k].Servings])

MetricsFormulas ==
    /\ metrics.Calorie_Deviation = metrics.totals.Total_Calories - targets.cal_target
    /\ metrics.Protein_Slack = metrics.totals.Total_Protein - targets.protein_target
    /\ metrics.Fat_Slack = targets.fat_target - metrics.totals.Total_Fat
    /\ metrics.Carb_Slack = targets.carb_target - metrics.totals.Total_Carbohydrates

\* C9 as claimed: every total is the sum over the Solution rows of catalog
\* value * servings, each row counted once; an absent column totals 0; and
\* the four deviations are the signed differences.
C9_TotalsAndMetrics ==
    pc = "evaluated" =>
        /\ metrics.totals.Total_Calories = RowTotal("Calories")
        /\ metrics.totals.Total_Protein = RowTotal("Protein")
        /\ metrics.totals.Total_Fat = RowTotal("Fat")
        /\ metrics.totals.Total_Carbohydrates = RowTotal("Carbohydrates")
        /\ metrics.totals.Total_Sugars = RowTotal("Sugars")
        /\ metrics.totals.Total_Fiber = RowTotal("Fiber")
        /\ metrics.totals.Total_Sodium = RowTotal("Sodium")
        /\ MetricsFormulas

\* C10: with an empty Solution the run does not fail, every total is 0, the
\* deviations are -cal_target, -protein_target, fat_target, carb_target, and
\* the plan table has no rows.
C10_EmptySolution ==
    /\ pc # "failed"
    /\ (pc \in {"planned", "evaluated"} /\ solution_df = << >>) => plan_df = << >>
    /\ (pc = "evaluated" /\ solution_df = << >>) =>
          /\ \A f \in DOMAIN metrics.totals : metrics.totals[f] = 0
          /\ metrics.Calorie_Deviation = -targets.cal_target
          /\ metrics.Protein_Slack = -targets.protein_target
          /\ metrics.Fat_Slack = targets.fat_target
          /\ metrics.Carb_Slack = targets.carb_target

C10_Witness ==
    /\ pc = "evaluated"
    /\ status = "Optimal"
    /\ solution_df = << >>
    /\ targets.cal_target > 0
    /\ cols = OptionalCols

\* The functions of a planning run in the order main calls them.
StageOrder ==
    <<"build_diet_model", "solve_model", "extract_solution",
      "build_meal_plan_table", "evaluate_solution">>

Warned == \E k \in DOMAIN stdout : stdout[k] = "Warning: not Optimal"

\* C11: in a planning run the solver is invoked exactly once, with no retry,
\* and the stages are called in the order build, solve, extract, plan,
\* evaluate (the calls made so far are a prefix of that order); the printed
\* status is the solver's and the warning is printed exactly for a status
\* other than Optimal; on such a run the Solution holds only rows of the
\* solver's own values, no default plan; and after every solve, Optimal or
\* not, the next stage runs: extraction can take its step, the plan table
\* of the Solution is defined with at least a row per Solution row, and the
\* Metrics of the Solution are defined.
C11_SolveOnceInOrder ==
    /\ Len(calls) <= Len(StageOrder)
    /\ calls = SubSeq(StageOrder, 1, Len(calls))
    /\ Solved <=> Len(calls) >= 2
    /\ Solved => /\ stdout[2] = status
                 /\ (status # "Optimal" <=> Warned)
    /\ (Extracted /\ status # "Optimal") =>
            \A k \in DOMAIN solution_df :
                /\ solution_df[k].Servings = s[solution_df[k].Food_Item]
                /\ solution_df[k].Servings > Threshold
    /\ pc = "solved" => ENABLED extract_solution
    /\ pc = "extracted" => Len(PlanTable(df, solution_df)) >= Len(solution_df)
    /\ pc = "planned" =>
            DOMAIN Metrics(compute_totals(df, RequiredCols \cup cols, solution_df),
                           targets.cal_target, targets.protein_target,
                           targets.fat_target, targets.carb_target)
                = {"totals", "Calorie_Deviation", "Protein_Slack",
                   "Fat_Slack", "Carb_Slack"}
    /\ pc = "evaluated" <=> calls = StageOrder

\* A non-Optimal run that was warned about and still reached evaluation
\* with a Solution row left by the solver.
C11_Witness ==
    /\ pc = "evaluated"
    /\ status = "Infeasible"
    /\ Warned
    /\ solution_df # << >>
    /\ plan_df # << >>

CatalogNames == {df[i].Food_Item : i \in DOMAIN df}

\* C12: in extract_solution an item whose serving-weight lookup misses (its
\* name is not a name of the catalog) does not fail the call: extraction
\* takes its step, the item's row is emitted like any other row, and its
\* grams = servings * 100.
C12_DefaultWeight ==
    /\ pc = "solved" => ENABLED extract_solution
    /\ Extracted =>
          /\ Len(solution_df) = Len(EmittedIdx)
          /\ \A k \in DOMAIN solution_df :
                LET item == items[EmittedIdx[k]]
                IN item \notin CatalogNames =>
                      solution_df[k] = [Food_Item |-> item,
                                        Servings |-> s[item],
                                        Quantity_grams |-> s[item] * 100]

\* A call that emitted a row for an item without a catalog weight next to a
\* row for a catalog item.
C12_Witness ==
    /\ Extracted
    /\ \E k \in DOMAIN solution_df : solution_df[k].Food_Item \notin CatalogNames
    /\ \E k \in DOMAIN solution_df :
          /\ solution_df[k].Food_Item \in CatalogNames
          /\ solution_df[k].Quantity_grams # solution_df[k].Servings * 100

\* C13: the names of the constraints build_diet_model emits are pairwise
\* distinct for every catalog, also when two rows have one display name or
\* names that sanitize to one string: no addition of a constraint collides
\* with an earlier one, so construction does not fail on a name.
C13_DistinctConstraintNames ==
    /\ pc # "failed"
    /\ pc = "built" =>
          \A i, j \in DOMAIN model.constraints :
              model.constraints[i].name = model.constraints[j].name => i = j

\* A built program of a catalog with one name on two rows and with two
\* different names that sanitize to one string.
C13_Witness ==
    /\ pc = "built"
    /\ \E i, j \in DOMAIN df : i # j /\ df[i].Food_Item = df[j].Food_Item
    /\ \E i, j \in DOMAIN df :
          /\ df[i].Food_Item # df[j].Food_Item
          /\ Sanitize(df[i].Food_Item, FALSE) = Sanitize(df[j].Food_Item, FALSE)
    /\ Len(model.constraints) >= 2 * Len(df) + 5

Planned == pc \in {"planned", "evaluated"}

\* The Plan entry of Solution row k: the row, the meal type of its catalog
\* row, and per-serving value * servings for calories, protein and carbs.
PlanEntry(k) ==
    LET row == df[EmittedIdx[k]]
    IN [Meal_Type |-> row.Meal_Type,
        Food_Item |-> solution_df[k].Food_Item,
        Servings |-> solution_df[k].Servings,
        Quantity_grams |-> solution_df[k].Quantity_grams,
        Calories_Contribution |-> row.Calories * solution_df[k].Servings,
        Protein_Contribution |-> row.Protein * solution_df[k].Servings,
        Carb_Contribution |-> row.Carbohydrates * solution_df[k].Servings]

\* C14 as claimed: the plan table has exactly one entry per Solution row,
\* each with its contributions = per-serving value * servings; the entries
\* are in ascending meal type, within a meal type in descending calorie
\* contribution, and entries that tie on both are in Solution order.
C14_PlanTable ==
    Planned =>
        /\ Len(plan_df) = Len(solution_df)
        /\ \E p \in [DOMAIN plan_df -> DOMAIN solution_df] :
              /\ \A k, l \in DOMAIN plan_df : p[k] = p[l] => k = l
              /\ \A k \in DOMAIN plan_df : plan_df[k] = PlanEntry(p[k])
              /\ \A k, l \in DOMAIN plan_df :
                    k < l =>
                       \/ MealRank(plan_df[k].Meal_Type)
                             < MealRank(plan_df[l].Meal_Type)
                       \/ /\ plan_df[k].Meal_Type = plan_df[l].Meal_Type
                          /\ plan_df[k].Calories_Contribution
                                > plan_df[l].Calories_Contribution
                       \/ /\ plan_df[k].Meal_Type = plan_df[l].Meal_Type
                          /\ plan_df[k].Calories_Contribution
                                = plan_df[l].Calories_Contribution
                          /\ p[k] < p[l]

\* C15: in every Optimal solution of the built program at most one of
\* calorie_plus and calorie_minus is positive, and their sum equals the
\* absolute value of (the program's total calories - the calorie target).
C15_OneSlackPositive ==
    Optimal =>
        /\ s_plus >= 0
        /\ s_minus >= 0
        /\ s_plus = 0 \/ s_minus = 0
        /\ s_plus + s_minus = Abs(ProgramCalories - targets.cal_target)

\* An Optimal solution below its calorie target: calorie_minus is positive
\* (and a point with both slacks raised by the same amount is feasible too).
C15_Witness ==
    /\ Optimal
    /\ s_minus > 0
    /\ ProgramCalories < targets.cal_target

\* An Optimal solution above its calorie target is reached too.
C15_AboveTargetReached ==
    /\ Optimal
    /\ s_plus > 0
    /\ ProgramCalories > targets.cal_target

\* The Solution rows of an item name, and the plan entries of a meal type.
InSolution(item) == \E k \in DOMAIN solution_df : solution_df[k].Food_Item = item

PlanRowsOf(meal) == {k \in DOMAIN plan_df : plan_df[k].Meal_Type = meal}

\* C16 as claimed: when min_servings_per_item is greater than the
\* extraction threshold, in every Optimal solution an item is in the
\* extracted Solution iff its select indicator is 1, and the plan table
\* shows 2 or 3 rows for each of Breakfast, Lunch, Dinner that has at least
\* 2 catalog items and exactly one Snack row when there is a Snack item.
C16_SolutionMatchesSelection ==
    (status = "Optimal" /\ targets.min_servings_per_item > Threshold) =>
        /\ Extracted =>
              \A i \in DOMAIN df :
                  InSolution(df[i].Food_Item) <=> y[df[i].Food_Item] = 1
        /\ Planned =>
              /\ \A k \in DOMAIN MainMeals :
                    Cardinality(MealRows(MainMeals[k])) >= 2
                        => Cardinality(PlanRowsOf(MainMeals[k])) \in {2, 3}
              /\ Cardinality(MealRows("Snack")) >= 1
                    => Cardinality(PlanRowsOf("Snack")) = 1

\* With min_servings_per_item = 0 an Optimal solution with an item selected
\* at servings 0, absent from the Solution, is reached.
C16_SelectedAtZeroReached ==
    /\ Extracted
    /\ status = "Optimal"
    /\ targets.min_servings_per_item = 0
    /\ \E i \in DOMAIN df :
          /\ y[df[i].Food_Item] = 1
          /\ s[df[i].Food_Item] = 0
          /\ ~InSolution(df[i].Food_Item)

====
